---- MODULE Spec2Model ----
(***************************************************************************)
(* mfi_mpower: the device session (MPowerDevice), its time-based cache and *)
(* the port entities (MPowerEntity / MPowerSensor / MPowerSwitch) of       *)
(* src/mfi_mpower.py, as a state machine.                                  *)
(*                                                                         *)
(* A coroutine runs atomically from one await to the next (asyncio is      *)
(* cooperative), so there is one action per call of a public operation     *)
(* (the code up to its first await) and one action per await point (the    *)
(* response arrives, the code runs on to the next await or to its end).    *)
(* The code of each segment is a pure operator on a record S holding the   *)
(* fields of the device object, the caller's switch object and the frame   *)
(* of the running task; the actions apply these operators.                 *)
(*                                                                         *)
(* The mPower device itself is the environment: it holds the outputs of    *)
(* its ports and whether it accepts the session cookie, and answers each   *)
(* request. It is the only client of the device (nothing else switches a   *)
(* port), so that a stale value in the model is always the cache's doing.  *)
(***************************************************************************)
EXTENDS Integers, Sequences, FiniteSets, TLC

\* ----------------------------------------------------------------- bounds
\* Largest number of ports of the device (Init picks 1..MaxPorts).
MaxPorts == 2
\* The clock stops at MaxTime; every HTTP round trip takes at least one tick.
MaxTime == 7
\* Largest cache interval given to the constructor (Init picks 0..MaxCacheTime).
MaxCacheTime == 2
\* Largest number of ports of the device whose accessors are read
\* (InitObject picks 0..MaxModelPorts).
MaxModelPorts == 9
\* Largest number of ports of the device whose switches are listed
\* (InitSwitches picks 1..MaxSwitches).
MaxSwitches == 3

\* The callers' tasks. Spec runs the single logical flow of spec section 5
\* (task Main alone); SpecConc lets both tasks overlap.
Tasks == {"t1", "t2"}
Main == "t1"

VARIABLES
    cache_time,      \* MPowerDevice._cache_time (constructor argument)
    password_ok,     \* whether the device accepts the configured credentials
    now,             \* time.time()
    _authenticated,  \* MPowerDevice._authenticated
    _time,           \* MPowerDevice._time
    _data,           \* MPowerDevice._data (the cached blob)
    switch,          \* the caller's MPowerSwitch object (its _port and _data)
    devOut,          \* device: the output (0/1) of each port
    devAuth,         \* device: whether it accepts the session cookie
    task,            \* per task: the frame of the operation it runs
    lastFetch,       \* time of the last successful fetch, -1 if none (history)
    switches,        \* the caller's list of switches (from create_switches)
    _eu_model,       \* MPowerDevice._eu_model (constructor argument)
    _session,        \* MPowerDevice._session: the device created self.session
    closed           \* ClientSession.closed of self.session

\* The fields only the constructor and __del__ touch.
obj == <<_eu_model, _session, closed>>

vars == <<cache_time, password_ok, now, _authenticated, _time, _data, switch,
          devOut, devAuth, task, lastFetch, switches, obj>>

\* ------------------------------------------------------- Python data model
\* A JSON object / dict: the set of its keys and the values of the keys this
\* library reads. hostBy and sensBy are history: the task whose GET /status.cgi
\* resp. GET /mfi/sensors.cgi produced that part ("none": no request did).
EmptyDict ==
    [keys |-> {}, sensors |-> <<>>, status |-> "", hostBy |-> "none", sensBy |-> "none"]

\* bool(dict): a dict is true iff it has a key.
DictTrue(d) == d.keys # {}

\* dict.update: the keys of b are added to a, b's values win.
DictUpdate(a, b) ==
    [keys    |-> a.keys \cup b.keys,
     sensors |-> IF "sensors" \in b.keys THEN b.sensors ELSE a.sensors,
     status  |-> IF "status" \in b.keys THEN b.status ELSE a.status,
     hostBy  |-> IF "host" \in b.keys THEN b.hostBy ELSE a.hostBy,
     sensBy  |-> IF "sensors" \in b.keys THEN b.sensBy ELSE a.sensBy]

\* bool(x) and int(b) on the 0/1 of the device's JSON.
BoolOf(x) == x # 0
IntOf(b) == IF b THEN 1 ELSE 0

\* list[i] of Python: indices -n..n-1 are valid, negative ones count from the end.
IndexOk(list, i) == -Len(list) <= i /\ i < Len(list)
Index(list, i) == IF i >= 0 THEN list[i + 1] ELSE list[Len(list) + i + 1]

\* MPowerDevice.updated
Updated(d) == DictTrue(d)

\* MPowerDevice.port_data: self.data.get("sensors", []), for a true dict
PortData(d) == IF "sensors" \in d.keys THEN d.sensors ELSE <<>>

\* MPowerDevice.ports
Ports(d) == Len(PortData(d))

\* An exception whose message is formatted with self.hostname: hostname reads
\* host_data, which reads data, which on a false _data raises InvalidData with
\* a message that is itself formatted with self.hostname: the recursion ends
\* in RecursionError before the intended exception is ever constructed.
RaiseWithHostname(exc, d) == IF DictTrue(d) THEN exc ELSE "RecursionError"

\* ------------------------------------------------- the derived accessors
\* MPowerDevice.data (getter): the exception it raises ("none": it returns).
DataError(d) == IF DictTrue(d) THEN "none" ELSE RaiseWithHostname("InvalidData", d)

\* MPowerDevice.hostname: self.host_data.get("hostname", self._host)
Hostname(d) == IF "host" \in d.keys THEN "host.hostname" ELSE "self._host"

\* MPowerDevice.ip, MPowerDevice.hwaddr: from the LAN data unless it says
\* "Unplugged"; the blobs here have neither "lan" nor "wlan", so .get gives "".
Ip(d) == IF "lan" \in d.keys THEN "lan.ip" ELSE ""
Hwaddr(d) == IF "lan" \in d.keys THEN "lan.hwaddr" ELSE ""

\* A model lookup that knows the PRO with six ports only.
ModelSixOnly(ports, eu) ==
    LET prefix == "mPower"
        suffix == IF eu THEN " (EU)" ELSE ""
    IN CASE ports = 1 -> (prefix \o " mini") \o suffix
         [] ports = 3 -> prefix \o suffix
         [] ports = 6 -> (prefix \o " PRO") \o suffix
         [] OTHER -> "Unknown"

\* MPowerDevice.model
Model(ports, eu) ==
    LET prefix == "mPower"
        suffix == IF eu THEN " (EU)" ELSE ""
    IN CASE ports = 1 -> (prefix \o " mini") \o suffix
         [] ports = 3 -> prefix \o suffix
         [] ports \in {6, 8} -> (prefix \o " PRO") \o suffix
         [] OTHER -> "Unknown"

\* MPowerDevice.description
Description(ports) ==
    CASE ports = 1 -> "mFi Power Adapter with Wi-Fi"
      [] ports = 3 -> "3-Port mFi Power Strip with Wi-Fi"
      [] ports = 6 -> "6-Port mFi Power Strip with Ethernet and Wi-Fi"
      [] ports = 8 -> "8-Port mFi Power Strip with Ethernet and Wi-Fi"
      [] OTHER -> ""

Accessors == {"hostname", "ip", "hwaddr", "model", "description", "ports"}

\* The value accessor name returns on blob d (ports: the number as a string).
AccessorValue(name, d, eu) ==
    CASE name = "hostname" -> Hostname(d)
      [] name = "ip" -> Ip(d)
      [] name = "hwaddr" -> Hwaddr(d)
      [] name = "model" -> Model(Ports(d), eu)
      [] name = "description" -> Description(Ports(d))
      [] OTHER -> ToString(Ports(d))

\* ----------------------------------------------------------- __del__
\* What asyncio.get_event_loop() finds: a running loop, a loop that does
\* not run, or none at all (it raises RuntimeError).
Loops == {"running", "stopped", "none"}

\* The exception raised inside the try of __del__ ("none": nothing), when
\* close() fails with an OSError iff fails. On a running loop close() only
\* becomes a task, whose exception stays in that task.
DelError(loop, fails) ==
    CASE loop = "none" -> "RuntimeError"
      [] loop = "stopped" /\ fails -> "OSError"
      [] OTHER -> "none"

\* A __del__ without its except clause.
SwallowNothing(exc) == exc

\* except Exception: pass
Swallow(exc) ==
    IF exc \in {"RuntimeError", "OSError", "ClientError"} THEN "none" ELSE exc

\* Whether self.session is closed after __del__: close() ran and succeeded.
\* A closed ClientSession stays closed; close() on it does nothing.
ClosedAfterDel(owned, loop, fails, was) ==
    IF owned /\ loop # "none" /\ ~fails THEN TRUE ELSE was

\* ------------------------------------------------------------- the device
NoRecord == [output |-> 0]
NoSwitch == [port |-> 0, data |-> NoRecord]

\* The body of GET /status.cgi and of GET /mfi/sensors.cgi, asked by task who.
StatusJson(who) == [EmptyDict EXCEPT !.keys = {"host"}, !.hostBy = who]
SensorsJson(out, st, who) ==
    [EmptyDict EXCEPT !.keys = {"sensors", "status"},
                      !.sensors = [i \in 1..Len(out) |-> [output |-> out[i]]],
                      !.status = st, !.sensBy = who]

\* What the await of session.request() can end in.
\*   err: "none" or the exception of the HTTP client; status: the HTTP status;
\*   path: the path of the final URL; body: "json", "html" (a content type that
\*   is not JSON) or "garbage" (JSON content type, no JSON); json: the object.
Response(err, status, path, body, json) ==
    [err |-> err, status |-> status, path |-> path, body |-> body, json |-> json]

TransportErrors == {"ClientError", "ClientSSLError", "TimeoutError", "CancelledError"}

\* The request never got an answer, or got one with a status that is not 200.
FailedResponses ==
    {Response(e, 0, "", "html", EmptyDict) : e \in TransportErrors}
    \cup {Response("none", 500, "/error", "html", EmptyDict)}

LoginPage == Response("none", 200, "/login.cgi", "html", EmptyDict)

\* The answers the device can give to request c (a record of the task's
\* trace) in the device state (out, auth), each with the device's next state.
\* A request without a valid session is redirected to /login.cgi.
DeviceAnswers(c, out, auth, who) ==
    CASE c.kind = "login" ->
           IF password_ok
           THEN {[resp |-> Response("none", 200, "/index.cgi", "html", EmptyDict),
                  out |-> out, auth |-> TRUE]}
           ELSE {[resp |-> LoginPage, out |-> out, auth |-> FALSE]}
      [] c.kind = "logout" ->
           {[resp |-> Response("none", 200, p, "html", EmptyDict),
             out |-> out, auth |-> FALSE] : p \in {"/login.cgi", "/logout.cgi"}}
      [] c.kind = "write" ->
           IF auth
           THEN {[resp |-> Response("none", 200, "/mfi/sensors.cgi", "json", EmptyDict),
                  out |-> IF c.id \in 1..Len(out)
                          THEN [out EXCEPT ![c.id] = c.output] ELSE out,
                  auth |-> auth]}
           ELSE {[resp |-> LoginPage, out |-> out, auth |-> auth]}
      [] c.kind = "status" ->
           IF auth
           THEN {[resp |-> Response("none", 200, "/status.cgi", b, StatusJson(who)),
                  out |-> out, auth |-> auth] : b \in {"json", "html", "garbage"}}
           ELSE {[resp |-> LoginPage, out |-> out, auth |-> auth]}
      [] OTHER ->  \* "sensors"
           IF auth
           THEN {[resp |-> Response("none", 200, "/mfi/sensors.cgi", "json",
                                    SensorsJson(out, st, who)),
                  out |-> out, auth |-> auth] : st \in {"success", "fail"}}
           ELSE {[resp |-> LoginPage, out |-> out, auth |-> auth]}

\* Every way the await can end: the device's answers, or a failure that leaves
\* the device as it was.
Answers(c, out, auth, who) ==
    DeviceAnswers(c, out, auth, who)
    \cup {[resp |-> r, out |-> out, auth |-> auth] : r \in FailedResponses}

\* The answers of a device that is reachable and in order: no transport
\* failure, status 200, JSON bodies, status field "success".
GoodAnswers(c, out, auth, who) ==
    {a \in DeviceAnswers(c, out, auth, who) :
        /\ a.resp.path = "/status.cgi" => a.resp.body = "json"
        /\ a.resp.json.status # "fail"}

\* ------------------------------------------------------------- the frames
\* One entry of a task's trace: a call of MPowerDevice.update ("update") or
\* an HTTP request ("login", "logout", "status", "sensors", "write").
Ev(kind) == [kind |-> kind, id |-> 0, output |-> 0]
WriteEv(port, output) == [kind |-> "write", id |-> port, output |-> output]

NoResponse == Response("none", 0, "", "html", EmptyDict)
\* The operation called and its arguments (index: of the switch in the list).
NoOp ==
    [name |-> "none", port |-> 0, output |-> FALSE, refresh |-> FALSE, index |-> 0]

\* The frame of a task that runs nothing.
IdleFrame ==
    [pc |-> "idle", op |-> NoOp, phase |-> 0,
     output |-> FALSE, refresh |-> FALSE,             \* arguments of set()
     resp_status |-> NoResponse, resp_sensors |-> NoResponse,
     ret |-> NoSwitch,                                \* the entity returned
     value |-> "",                                    \* the string returned
     wrote |-> "",                     \* history: where the write's answer landed
     raised |-> "none",                               \* the exception raised
     cause |-> "none", landed |-> "",                 \* history
     trace |-> <<>>]                                  \* history

\* The program state one code segment works on.
St(t) ==
    [now |-> now, auth |-> _authenticated, time |-> _time, data |-> _data,
     lastFetch |-> lastFetch, switch |-> switch, switches |-> switches,
     f |-> task[t]]

\* The frame of operation o, called in state S.
Enter(S, o) ==
    [S EXCEPT !.f = [IdleFrame EXCEPT !.pc = "run", !.op = o]]

\* The operation ends: it returns, or raises exc (cause: why, history).
Finish(S, exc, cause) ==
    [S EXCEPT !.f.pc = "done", !.f.raised = exc, !.f.cause = cause]
Return(S) == Finish(S, "none", "none")

\* await self.session.request(...): the request c is sent, the task waits.
Issue(S, c, pc) == [S EXCEPT !.f.pc = pc, !.f.trace = Append(@, c)]

\* ------------------------------------------------------ MPowerDevice.request
\* The exception request() raises for response r ("none": it returns).
RequestError(r, d) ==
    CASE r.err = "CancelledError" -> RaiseWithHostname("CancelledError", d)
      [] r.err = "TimeoutError"   -> RaiseWithHostname("TimeoutError", d)
      [] r.err = "ClientSSLError" -> RaiseWithHostname("CannotConnect", d)
      [] r.err = "ClientError"    -> RaiseWithHostname("CannotConnect", d)
      [] r.status # 200           -> RaiseWithHostname("InvalidResponse", d)
      [] OTHER                    -> "none"

\* Why the request failed (history).
RequestCause(r) ==
    CASE r.err \in {"ClientSSLError", "ClientError"} -> "transport"
      [] r.err = "CancelledError" -> "cancelled"
      [] r.err = "TimeoutError" -> "timeout"
      [] r.status # 200 -> "http_status"
      [] OTHER -> "none"

\* A request() that takes every answer with status 200 for an authenticated one.
AuthenticatedAlways(r) == r.status = 200

\* NOTE: Un-authorized request will redirect to /login.cgi
Authenticated(r) == r.path # "/login.cgi"

\* A request() that sets the flag from the final URL before it looks at the
\* failure.
RequestFlagFirst(S, r) ==
    IF RequestError(r, S.data) # "none"
    THEN Finish([S EXCEPT !.auth = Authenticated(r)],
                RequestError(r, S.data), RequestCause(r))
    ELSE [S EXCEPT !.auth = Authenticated(r)]

\* request() from the end of its await: it raises, or sets the flag from the
\* final URL's path and returns.
Request(S, r) ==
    IF RequestError(r, S.data) # "none"
    THEN Finish(S, RequestError(r, S.data), RequestCause(r))
    ELSE [S EXCEPT !.auth = Authenticated(r)]

\* --------------------------------------------------------- MPowerEntity
\* MPowerEntity.__init__(device, port): the exception it raises ("none": the
\* entity is constructed). The port record is read before the port is checked.
EntityInitError(d, port) ==
    IF ~Updated(d) THEN RaiseWithHostname("InvalidData", d)
    ELSE IF ~IndexOk(PortData(d), port - 1) THEN "IndexError"
    ELSE IF port < 1 THEN RaiseWithHostname("ValueError", d)
    ELSE IF port > Ports(d) THEN RaiseWithHostname("ValueError", d)
    ELSE "none"

Entity(d, port) == [port |-> port, data |-> Index(PortData(d), port - 1)]

\* create_sensor / create_switch after their update(): the constructor runs;
\* the caller keeps the switch it gets.
Construct(S) ==
    LET port == S.f.op.port
        exc == EntityInitError(S.data, port)
    IN IF exc # "none" THEN Finish(S, exc, "port")
       ELSE LET e == Entity(S.data, port)
            IN Return([S EXCEPT !.f.ret = e,
                                !.switch = IF S.f.op.name = "create_switch"
                                           THEN e ELSE @])

\* A list that binds the i-th switch to port i - 1.
SwitchesFromZero(d) == [i \in 1..Ports(d) |-> Entity(d, i - 1)]

\* [MPowerSwitch(self, i + 1) for i in range(self.ports)]
Switches(d) == [i \in 1..Ports(d) |-> Entity(d, i)]

\* create_switches after its update(): self.ports reads self.data, then one
\* constructor runs per port; the caller keeps the list it gets.
ConstructAll(S) ==
    LET errs == {i \in 1..Ports(S.data) : EntityInitError(S.data, i) # "none"}
    IN IF ~DictTrue(S.data)
       THEN Finish(S, RaiseWithHostname("InvalidData", S.data), "port")
       ELSE IF errs # {}
       THEN Finish(S, EntityInitError(S.data, CHOOSE i \in errs : \A j \in errs : i <= j),
                   "port")
       ELSE Return([S EXCEPT !.switches = Switches(S.data)])

\* MPowerSwitch.set(output, refresh) up to its await.
SwitchSet(S, output, refresh) ==
    Issue([S EXCEPT !.f.output = output, !.f.refresh = refresh],
          WriteEv(S.switch.port, IntOf(output)), "w_write")

\* An update() of the entity that keeps the record it has.
EntityKeeps(S) ==
    LET pd == PortData(S.data)
        i == S.switch.port - 1
    IN IF ~IndexOk(pd, i) THEN Finish(S, "IndexError", "port")
       ELSE IF S.f.op.name = "toggle" /\ S.f.phase = 1
            THEN SwitchSet([S EXCEPT !.f.phase = 2],
                           ~BoolOf(S.switch.data.output), S.f.op.refresh)
            ELSE Return(S)

\* MPowerEntity.update() after its await of device.update(): the entity reads
\* its record again; in toggle() the negation is computed and set() called.
EntityReread(S) ==
    LET pd == PortData(S.data)
        i == S.switch.port - 1
    IN IF ~IndexOk(pd, i) THEN Finish(S, "IndexError", "port")
       ELSE LET k == S.f.op.index
                \* self is the k-th object of the caller's list, if k > 0
                S1 == [S EXCEPT !.switch.data = Index(pd, i),
                                !.switches = IF k > 0
                                             THEN [@ EXCEPT ![k].data = Index(pd, i)]
                                             ELSE @]
            IN IF S.f.op.name = "toggle" /\ S.f.phase = 1
               THEN SwitchSet([S1 EXCEPT !.f.phase = 2],
                              ~BoolOf(S1.switch.data.output), S.f.op.refresh)
               ELSE Return(S1)

\* ------------------------------------------------------ MPowerDevice.update
\* device.update() returns to its caller.
AfterUpdate(S) ==
    CASE S.f.op.name = "update" -> Return(S)
      [] S.f.op.name \in {"create_sensor", "create_switch"} -> Construct(S)
      [] S.f.op.name = "create_switches" -> ConstructAll(S)
      [] OTHER -> EntityReread(S)

\* A cache test that also fetches at exactly the cache interval.
CacheExpiredAtInterval(S) == ~DictTrue(S.data) \/ (S.now - S.time) >= cache_time

\* The cache test of update() and the first GET.
CacheExpired(S) == ~DictTrue(S.data) \/ (S.now - S.time) > cache_time

CacheCheck(S) ==
    IF CacheExpired(S) THEN Issue(S, Ev("status"), "w_status")
    ELSE AfterUpdate(S)

\* login() returns to its caller.
AfterLogin(S) == IF S.f.op.name = "login" THEN Return(S) ELSE CacheCheck(S)

\* login() up to its await.
Login(S) ==
    IF ~S.auth THEN Issue(S, Ev("login"), "w_login") ELSE AfterLogin(S)

\* login() from its await on.
LoginResume(S, r) ==
    LET S1 == Request(S, r)
    IN IF S1.f.pc = "done" THEN S1
       ELSE IF ~S1.auth
            THEN Finish(S1, RaiseWithHostname("InvalidAuth", S1.data), "rejected")
            ELSE AfterLogin(S1)

\* logout()
Logout(S) == IF S.auth THEN Issue(S, Ev("logout"), "w_logout") ELSE Return(S)

LogoutResume(S, r) ==
    LET S1 == Request(S, r) IN IF S1.f.pc = "done" THEN S1 ELSE Return(S1)

\* update() up to its first await.
DeviceUpdate(S) == Login([S EXCEPT !.f.trace = Append(@, Ev("update"))])

\* An update() that sends GET /status.cgi again when it failed.
StatusResumeRetry(S, r) ==
    LET S1 == Request(S, r)
    IN IF S1.f.pc = "done" THEN Issue(S, Ev("status"), "w_status")
       ELSE Issue([S1 EXCEPT !.f.resp_status = r], Ev("sensors"), "w_sensors")

\* update() from the await of GET /status.cgi to that of GET /mfi/sensors.cgi.
StatusResume(S, r) ==
    LET S1 == Request(S, r)
    IN IF S1.f.pc = "done" THEN S1
       ELSE Issue([S1 EXCEPT !.f.resp_status = r], Ev("sensors"), "w_sensors")

\* ... and on to the await of resp_status.json().
SensorsResume(S, r) ==
    LET S1 == Request(S, r)
    IN IF S1.f.pc = "done" THEN S1
       ELSE [S1 EXCEPT !.f.resp_sensors = r, !.f.pc = "w_json"]

\* ClientResponse.json(): the exception it raises.
JsonError(r) ==
    CASE r.body = "html" -> "ContentTypeError"
      [] r.body = "garbage" -> "JSONDecodeError"
      [] OTHER -> "none"

\* The cache is replaced: self._time = time.time(); self._data = data
Commit(S, data) ==
    [S EXCEPT !.time = S.now, !.data = data, !.lastFetch = S.now]

\* update() from the bodies on: parse, merge, validate, replace the cache.
JsonResume(S) ==
    LET e1 == JsonError(S.f.resp_status)
        e2 == JsonError(S.f.resp_sensors)
        e == IF e1 # "none" THEN e1 ELSE e2
        data == DictUpdate(S.f.resp_status.json, S.f.resp_sensors.json)
        status == IF "status" \in data.keys THEN data.status ELSE "None"
    IN IF e = "ContentTypeError"
       THEN Finish(S, RaiseWithHostname("InvalidData", S.data), "content_type")
       ELSE IF e # "none" THEN Finish(S, e, "not_json")
       ELSE IF status # "success"
       THEN Finish(S, RaiseWithHostname("InvalidData", S.data), "status_field")
       ELSE AfterUpdate(Commit(S, data))

\* A set() that refreshes whatever its refresh argument says.
WriteResumeAlwaysRefresh(S, r) ==
    LET S1 == Request([S EXCEPT !.f.wrote = r.path], r)
    IN IF S1.f.pc = "done" THEN S1 ELSE DeviceUpdate(S1)

\* set() from its await on: the optional refresh is the entity's update().
WriteResume(S, r) ==
    LET S1 == Request([S EXCEPT !.f.wrote = r.path], r)
    IN IF S1.f.pc = "done" THEN S1
       ELSE IF S1.f.refresh THEN DeviceUpdate(S1) ELSE Return(S1)

\* A direct call of request("GET", "/status.cgi").
RequestResume(S, r) ==
    LET S1 == Request(S, r) IN IF S1.f.pc = "done" THEN S1 ELSE Return(S1)

\* ------------------------------------------------------------------ actions
\* A finished frame is the result of the operation: its caller takes it
\* before anything else happens in the single flow (Taken), and at the latest
\* with the next step of another task.
Forget(f) == IF f.pc = "done" THEN IdleFrame ELSE f
Taken == \A u \in Tasks : task[u].pc # "done"

\* The fields a code segment leaves in S become the next state.
Apply(t, S) ==
    /\ _authenticated' = S.auth
    /\ _time' = S.time
    /\ _data' = S.data
    /\ lastFetch' = S.lastFetch
    /\ switch' = S.switch
    /\ switches' = S.switches
    /\ task' = [u \in Tasks |-> IF u = t THEN S.f ELSE Forget(task[u])]

Free(t) == task[t].pc = "idle"

\* The caller of a finished operation has its result or its exception.
Result(t) ==
    /\ task[t].pc = "done"
    /\ task' = [task EXCEPT ![t] = IdleFrame]
    /\ UNCHANGED <<cache_time, password_ok, now, _authenticated, _time, _data,
                   switch, devOut, devAuth, lastFetch, switches, obj>>

\* Task t calls operation o: Code is the operation up to its first await.
Call(t, o, Code(_)) ==
    /\ Free(t)
    /\ Apply(t, Code(Enter(St(t), o)))
    /\ UNCHANGED <<cache_time, password_ok, now, devOut, devAuth, obj>>

\* The await of task t at pc ends after at least one tick with one of the
\* answers Ans gives; Resume is the code from there to the next await.
RespondWith(t, pc, Resume(_, _), Ans(_, _, _, _)) ==
    /\ task[t].pc = pc
    /\ now < MaxTime
    /\ now' = now + 1
    /\ \E a \in Ans(task[t].trace[Len(task[t].trace)], devOut, devAuth, t) :
          /\ devOut' = a.out
          /\ devAuth' = a.auth
          /\ Apply(t, Resume([St(t) EXCEPT !.now = now + 1,
                                           !.f.landed = a.resp.path], a.resp))
    /\ UNCHANGED <<cache_time, password_ok, obj>>

\* ... the device or the network answered.
Respond(t, pc, Resume(_, _)) == RespondWith(t, pc, Resume, Answers)

Op(name) == [NoOp EXCEPT !.name = name]

\* The ports a caller may ask an entity for.
PortArgs == (-1)..(MaxPorts + 1)

CallRequest(t) ==
    LET Code(S) == Issue(S, Ev("status"), "w_request") IN Call(t, Op("request"), Code)

CallLogin(t) == Call(t, Op("login"), Login)

CallLogout(t) == Call(t, Op("logout"), Logout)

CallUpdate(t) == Call(t, Op("update"), DeviceUpdate)

\* create_sensor(port), create_switch(port)
CreateCode(S) == IF ~Updated(S.data) THEN DeviceUpdate(S) ELSE Construct(S)

CallCreateSensor(t) ==
    \E p \in PortArgs : Call(t, [Op("create_sensor") EXCEPT !.port = p], CreateCode)

CallCreateSwitch(t) ==
    \E p \in PortArgs : Call(t, [Op("create_switch") EXCEPT !.port = p], CreateCode)

\* The operations of the caller's switch.
CallEntityUpdate(t) ==
    /\ switch # NoSwitch
    /\ Call(t, Op("entity_update"), DeviceUpdate)

CallSet(t) ==
    /\ switch # NoSwitch
    /\ \E v \in BOOLEAN, r \in BOOLEAN :
          LET Code(S) == SwitchSet(S, v, r)
          IN Call(t, [Op("set") EXCEPT !.output = v, !.refresh = r], Code)

CallToggle(t) ==
    /\ switch # NoSwitch
    /\ \E r \in BOOLEAN :
          LET Code(S) == DeviceUpdate([S EXCEPT !.f.phase = 1])
          IN Call(t, [Op("toggle") EXCEPT !.refresh = r], Code)

\* create_switches()
CreateAllCode(S) == IF ~Updated(S.data) THEN DeviceUpdate(S) ELSE ConstructAll(S)

CallCreateSwitches(t) == Call(t, Op("create_switches"), CreateAllCode)

\* turn_on(refresh) and turn_off(refresh) of the i-th switch of the list:
\* self.set(True, refresh=refresh), self.set(False, refresh=refresh)
TurnCode(S, output) ==
    SwitchSet([S EXCEPT !.switch = S.switches[S.f.op.index]], output, S.f.op.refresh)

CallTurnOn(t) ==
    \E i \in 1..Len(switches), r \in BOOLEAN :
        LET Code(S) == TurnCode(S, TRUE)
        IN Call(t, [Op("turn_on") EXCEPT !.index = i, !.refresh = r], Code)

CallTurnOff(t) ==
    \E i \in 1..Len(switches), r \in BOOLEAN :
        LET Code(S) == TurnCode(S, FALSE)
        IN Call(t, [Op("turn_off") EXCEPT !.index = i, !.refresh = r], Code)

\* A derived accessor is read: a property of the device, no await in it.
AccessorCode(S) ==
    IF DataError(S.data) # "none"
    THEN Finish(S, DataError(S.data), "not_updated")
    ELSE Return([S EXCEPT !.f.value = AccessorValue(S.f.op.name, S.data, _eu_model)])

CallAccessor(t) == \E a \in Accessors : Call(t, Op(a), AccessorCode)

\* update() on a device whose HTTP session is open.
CallUpdateOpen(t) == ~closed /\ CallUpdate(t)

\* MPowerDevice.__del__(), by the garbage collector or by hand.
CallDel(t) ==
    /\ Free(t)
    /\ \E loop \in Loops, fails \in BOOLEAN :
          LET exc == IF _session THEN DelError(loop, fails) ELSE "none"
          IN /\ closed' = IF _session THEN ClosedAfterDel(_session, loop, fails, closed)
                                      ELSE closed
             /\ task' = [u \in Tasks |->
                            IF u = t
                            THEN [IdleFrame EXCEPT !.pc = "done", !.op = Op("__del__"),
                                                   !.raised = Swallow(exc),
                                                   !.cause = exc]
                            ELSE Forget(task[u])]
    /\ UNCHANGED <<cache_time, password_ok, now, _authenticated, _time, _data,
                   switch, devOut, devAuth, lastFetch, switches, _eu_model, _session>>

RespRequest(t) == Respond(t, "w_request", RequestResume)
RespLogin(t) == Respond(t, "w_login", LoginResume)
RespLogout(t) == Respond(t, "w_logout", LogoutResume)
RespStatus(t) == Respond(t, "w_status", StatusResume)
RespSensors(t) == Respond(t, "w_sensors", SensorsResume)
RespWrite(t) == Respond(t, "w_write", WriteResume)

\* The bodies are read: await resp_status.json(), await resp_sensors.json().
ReadJson(t) ==
    /\ task[t].pc = "w_json"
    /\ Apply(t, JsonResume(St(t)))
    /\ UNCHANGED <<cache_time, password_ok, now, devOut, devAuth, obj>>

\* A blob a caller can hand to the data setter: not one of this device's fetches.
OtherBlob ==
    [EmptyDict EXCEPT !.keys = {"sensors", "status"},
                      !.sensors = <<[output |-> 1]>>, !.status = "success"]

\* MPowerDevice.data = d (the setter)
SetData(d) ==
    /\ Taken
    /\ _data' = d
    /\ UNCHANGED <<cache_time, password_ok, now, _authenticated, _time, switch,
                   devOut, devAuth, task, lastFetch, switches, obj>>

SetDataSeq == Free(Main) /\ \E d \in {EmptyDict, OtherBlob} : SetData(d)
SetDataConc == \E d \in {EmptyDict, OtherBlob} : SetData(d)

\* Time passes between two operations (within one, with each round trip).
Tick ==
    /\ \A t \in Tasks : Free(t)
    /\ now < MaxTime
    /\ now' = now + 1
    /\ UNCHANGED <<cache_time, password_ok, _authenticated, _time, _data, switch,
                   devOut, devAuth, task, lastFetch, switches, obj>>

\* The device drops the session (it rebooted, or the session timed out).
DevExpire ==
    /\ Taken
    /\ devAuth
    /\ devAuth' = FALSE
    /\ UNCHANGED <<cache_time, password_ok, now, _authenticated, _time, _data,
                   switch, devOut, task, lastFetch, switches, obj>>

\* MPowerDevice.__init__ and a device with 1..MaxPorts ports.
Init ==
    /\ cache_time \in 0..MaxCacheTime
    /\ password_ok \in BOOLEAN
    /\ now = 0
    /\ _authenticated = FALSE
    /\ _time = 0
    /\ _data = EmptyDict
    /\ switch = NoSwitch
    /\ devOut \in UNION {[1..n -> {0, 1}] : n \in 1..MaxPorts}
    /\ devAuth = FALSE
    /\ task = [t \in Tasks |-> IdleFrame]
    /\ lastFetch = -1
    /\ switches = <<>>
    /\ _eu_model = FALSE    \* eu_model: bool = False
    /\ _session = TRUE      \* session: ClientSession | None = None
    /\ closed = FALSE

\* One caller of the device session, one operation at a time.
Next ==
    \/ Tick
    \/ DevExpire
    \/ SetDataSeq
    \/ CallRequest(Main)
    \/ CallLogin(Main)
    \/ CallLogout(Main)
    \/ CallUpdate(Main)
    \/ RespRequest(Main)
    \/ RespLogin(Main)
    \/ RespLogout(Main)
    \/ RespStatus(Main)
    \/ RespSensors(Main)
    \/ ReadJson(Main)
    \/ Result(Main)

Spec == Init /\ [][Next]_vars

\* One caller of the port entities, one operation at a time.
NextEntity ==
    \/ Tick
    \/ DevExpire
    \/ CallCreateSensor(Main)
    \/ CallCreateSwitch(Main)
    \/ CallEntityUpdate(Main)
    \/ CallSet(Main)
    \/ CallToggle(Main)
    \/ RespLogin(Main)
    \/ RespStatus(Main)
    \/ RespSensors(Main)
    \/ ReadJson(Main)
    \/ RespWrite(Main)
    \/ Result(Main)

SpecEntity == Init /\ [][NextEntity]_vars

\* MPowerDevice.__init__ and a device with 1..MaxSwitches ports.
InitSwitches ==
    /\ cache_time \in 0..MaxCacheTime
    /\ password_ok = TRUE
    /\ now = 0
    /\ _authenticated = FALSE
    /\ _time = 0
    /\ _data = EmptyDict
    /\ switch = NoSwitch
    /\ devOut \in UNION {[1..n -> {0, 1}] : n \in 1..MaxSwitches}
    /\ devAuth = FALSE
    /\ task = [t \in Tasks |-> IdleFrame]
    /\ lastFetch = -1
    /\ switches = <<>>
    /\ _eu_model = FALSE
    /\ _session = TRUE
    /\ closed = FALSE

\* One caller of create_switches() and of the switches of its list.
NextSwitches ==
    \/ Tick
    \/ DevExpire
    \/ CallCreateSwitches(Main)
    \/ CallTurnOn(Main)
    \/ CallTurnOff(Main)
    \/ RespLogin(Main)
    \/ RespStatus(Main)
    \/ RespSensors(Main)
    \/ ReadJson(Main)
    \/ RespWrite(Main)
    \/ Result(Main)

SpecSwitches == InitSwitches /\ [][NextSwitches]_vars

\* MPowerDevice.__init__ with either regional flag and with a session of its
\* own or one of the caller's, and a device with 0..MaxModelPorts ports.
InitObject ==
    /\ cache_time \in 0..MaxCacheTime
    /\ password_ok = TRUE
    /\ now = 0
    /\ _authenticated = FALSE
    /\ _time = 0
    /\ _data = EmptyDict
    /\ switch = NoSwitch
    /\ devOut \in {[i \in 1..n |-> 0] : n \in 0..MaxModelPorts}
    /\ devAuth = FALSE
    /\ task = [t \in Tasks |-> IdleFrame]
    /\ lastFetch = -1
    /\ switches = <<>>
    /\ _eu_model \in BOOLEAN
    /\ _session \in BOOLEAN
    /\ closed = FALSE

\* The life of a device object: updates, reads of its accessors, teardown.
NextObject ==
    \/ CallUpdateOpen(Main)
    \/ RespLogin(Main)
    \/ RespStatus(Main)
    \/ RespSensors(Main)
    \/ ReadJson(Main)
    \/ CallAccessor(Main)
    \/ CallDel(Main)
    \/ Result(Main)

SpecObject == InitObject /\ [][NextObject]_vars

\* The awaits of update() on a device that is reachable and in order.
RespLoginOk(t) == RespondWith(t, "w_login", LoginResume, GoodAnswers)
RespStatusOk(t) == RespondWith(t, "w_status", StatusResume, GoodAnswers)
RespSensorsOk(t) == RespondWith(t, "w_sensors", SensorsResume, GoodAnswers)

\* Time passes while it matters to update(): until the cache has expired.
TickFresh == Tick /\ ~CacheExpired(St(Main))

\* A session after a successful update() at time 0 (the clock's origin is
\* that fetch), whose login the device has dropped since: the flag is still
\* true. The cache interval leaves the clock room for the cache to expire
\* and for two update() calls (2 and 3 round trips).
InitRecover ==
    /\ cache_time \in {c \in 0..MaxCacheTime : c + 6 <= MaxTime}
    /\ password_ok = TRUE
    /\ now = 0
    /\ _authenticated = TRUE
    /\ _time = 0
    /\ devOut \in UNION {[1..n -> {0, 1}] : n \in 1..MaxPorts}
    /\ _data = DictUpdate(StatusJson(Main), SensorsJson(devOut, "success", Main))
    /\ switch = NoSwitch
    /\ devAuth = FALSE
    /\ task = [t \in Tasks |-> IdleFrame]
    /\ lastFetch = 0
    /\ switches = <<>>
    /\ _eu_model = FALSE
    /\ _session = TRUE
    /\ closed = FALSE

\* One caller that polls update() on a reachable device.
NextRecover ==
    \/ TickFresh
    \/ CallUpdate(Main)
    \/ RespLoginOk(Main)
    \/ RespStatusOk(Main)
    \/ RespSensorsOk(Main)
    \/ ReadJson(Main)
    \/ Result(Main)

\* Fairness: time passes, the caller calls update() again, the device
\* answers every request, and a coroutine that can run does run.
SpecRecover ==
    /\ InitRecover /\ [][NextRecover]_vars
    /\ SF_vars(TickFresh)
    /\ WF_vars(CallUpdate(Main))
    /\ WF_vars(RespLoginOk(Main))
    /\ WF_vars(RespStatusOk(Main))
    /\ WF_vars(RespSensorsOk(Main))
    /\ WF_vars(ReadJson(Main))
    /\ WF_vars(Result(Main))

\* Two callers whose update() calls overlap.
NextConc ==
    \/ Tick
    \/ DevExpire
    \/ SetDataConc
    \/ \E t \in Tasks :
          \/ CallUpdate(t)
          \/ RespLogin(t)
          \/ RespStatus(t)
          \/ RespSensors(t)
          \/ ReadJson(t)
          \/ Result(t)

SpecConc == Init /\ [][NextConc]_vars

\* ------------------------------------------------------------------ claims
Last(seq) == seq[Len(seq)]
Kinds(seq) == [i \in 1..Len(seq) |-> seq[i].kind]
Count(seq, kind) == Cardinality({i \in 1..Len(seq) : seq[i].kind = kind})
\* Task t is called with operation name in this step.
Called(t, name) == task[t].pc = "idle" /\ task[t]'.op.name = name
\* The operation name of task t ends in this step.
Ends(t, name) ==
    task[t].pc # "done" /\ task[t]'.pc = "done" /\ task[t]'.op.name = name

\* C1: request() raises CannotConnect for a transport failure and
\* InvalidResponse for a status that is not 200, in every session state
\* (also with an empty cache), and nothing else for these two failures.
C1_RequestClassifiesFailures ==
    \A t \in Tasks :
        (task[t].pc = "done" /\ task[t].op.name = "request") =>
            /\ task[t].cause = "transport" => task[t].raised = "CannotConnect"
            /\ task[t].cause = "http_status" => task[t].raised = "InvalidResponse"

\* C2: login() on a session that is not authenticated, whose POST ends on
\* /login.cgi, raises InvalidAuth and leaves the flag false; login() on an
\* authenticated session issues no request.
C2_LoginRejected ==
    [][\A t \in Tasks :
        /\ (Ends(t, "login") /\ task[t].pc = "w_login"
              /\ task[t]'.landed = "/login.cgi")
           => (task[t]'.raised = "InvalidAuth" /\ ~_authenticated')
        /\ (Called(t, "login") /\ _authenticated)
           => (task[t]'.trace = <<>> /\ task[t]'.pc = "done")]_vars

\* C3: logout() on an authenticated session POSTs to /logout.cgi exactly once
\* and the flag is false afterwards, whatever the response and also when the
\* request fails; on a session that is not authenticated it issues no request
\* and leaves the flag false.
C3_LogoutClearsFlag ==
    [][\A t \in Tasks :
        /\ (Called(t, "logout") /\ _authenticated)
           => (task[t]'.trace = <<Ev("logout")>> /\ task[t]'.pc = "w_logout")
        /\ (Called(t, "logout") /\ ~_authenticated)
           => (task[t]'.trace = <<>> /\ task[t]'.pc = "done" /\ ~_authenticated')
        /\ Ends(t, "logout")
           => (~_authenticated' /\ Count(task[t]'.trace, "logout") <= 1)]_vars

\* The events of a trace after its (first) write.
AfterWrite(seq) ==
    LET w == CHOOSE i \in 1..Len(seq) : seq[i].kind = "write" /\
                 \A j \in 1..(i - 1) : seq[j].kind # "write"
    IN SubSeq(seq, w + 1, Len(seq))

\* C4: after set(v, refresh=True) returned normally and the device applied
\* the write, the cache has been fetched from the device again and the switch
\* reports output == v, for every cache interval and every age of the cache.
C4_SetRefreshShowsNewState ==
    \A t \in Tasks :
        (/\ task[t].pc = "done" /\ task[t].op.name = "set"
         /\ task[t].op.refresh /\ task[t].raised = "none"
         /\ devOut[switch.port] = IntOf(task[t].op.output))
        => /\ BoolOf(switch.data.output) = task[t].op.output
           /\ Kinds(AfterWrite(task[t].trace)) = <<"update", "status", "sensors">>
           /\ lastFetch = now

\* Task t issues the write of its toggle() in this step.
ToggleWrites(t) ==
    /\ task[t]'.op.name = "toggle"
    /\ task[t].pc # "w_write" /\ task[t]'.pc = "w_write"

\* C5: the output toggle() writes is the negation of the output the device
\* reports at the time of the call, never that of an older cached value.
C5_ToggleNegatesDeviceState ==
    [][\A t \in Tasks :
        ToggleWrites(t) =>
            Last(task[t]'.trace).output = 1 - devOut[switch'.port]]_vars

C7_PortOutOfRange ==
    \A t \in Tasks :
        (/\ task[t].pc = "done"
         /\ task[t].op.name \in {"create_sensor", "create_switch"}
         /\ task[t].cause \in {"port", "none"}
         /\ Updated(_data)
         /\ (task[t].op.port < 1 \/ task[t].op.port > Ports(_data)))
        => (task[t].raised = "ValueError" /\ task[t].ret = NoSwitch)

C9_FailedUpdateKeepsCache ==
    [][\A t \in Tasks :
        /\ ((Called(t, "update") \/ (task[t].op.name = "update" /\ task[t].pc # "done"))
              /\ (_data' # _data \/ _time' # _time))
           => (task[t]'.pc = "done" /\ task[t]'.raised = "none")
        /\ (Ends(t, "update") /\ task[t]'.cause = "status_field")
           => task[t]'.raised = "InvalidData"]_vars

\* C10: the cached blob is empty or the merged result of the two GETs of one
\* update() call whose status was "success", and it is replaced together with
\* the timestamp.
C10_BlobFromOneFetch ==
    \/ _data = EmptyDict
    \/ /\ _data.keys = {"host", "sensors", "status"}
       /\ _data.status = "success"
       /\ _data.hostBy = _data.sensBy /\ _data.hostBy \in Tasks
       /\ _time = lastFetch

\* With C10: what update() itself does to the cache. Every step of an
\* update() that changes the blob or the timestamp replaces both, the blob by
\* the merged answers to that call's own two GETs with status "success"; the
\* data setter is the only step that replaces the blob alone.
UpdateReplacesCacheAtOnce ==
    [][\A t \in Tasks :
        (task[t].pc # "done" /\ task[t]' # task[t]
            /\ (_data' # _data \/ _time' # _time)) =>
            /\ _data'.keys = {"host", "sensors", "status"}
            /\ _data'.status = "success"
            /\ _data'.hostBy = t /\ _data'.sensBy = t
            /\ _time' = now' /\ lastFetch' = now']_vars

\* C11: on a device whose cache holds n port records create_switches() yields
\* n switches, the i-th bound to port i and reporting the output of the i-th
\* record; turn_off() of the switch of port p issues exactly one write, with
\* id=p and output=0, and turn_on() exactly one with id=p and output=1.
C11_SwitchList ==
    [][\A t \in Tasks :
        /\ (Ends(t, "create_switches") /\ task[t]'.raised = "none") =>
              /\ Len(switches') = Ports(_data')
              /\ \A i \in 1..Len(switches') :
                    /\ switches'[i].port = i
                    /\ switches'[i].data.output = PortData(_data')[i].output
        /\ \A i \in 1..Len(switches') : switches'[i].port = i
        /\ Called(t, "turn_off") =>
              task[t]'.trace = <<WriteEv(task[t]'.op.index, 0)>>
        /\ Called(t, "turn_on") =>
              task[t]'.trace = <<WriteEv(task[t]'.op.index, 1)>>
        /\ task[t]'.op.name \in {"turn_on", "turn_off"} =>
              Count(task[t]'.trace, "write") = 1]_vars

\* C11's case: of three switches made for a device reporting the outputs
\* false, true, false, the second reports true and its turn_off() returned
\* after one write with id=2 and output=0.
C11_Witness ==
    \E t \in Tasks :
        /\ task[t].pc = "done" /\ task[t].op.name = "turn_off"
        /\ task[t].op.index = 2 /\ task[t].raised = "none"
        /\ Len(switches) = 3
        /\ [i \in 1..3 |-> switches[i].data.output] = <<0, 1, 0>>
        /\ task[t].trace = <<WriteEv(2, 0)>>

\* C12: whenever the request of login() raises (it was cancelled, it timed
\* out, the connection failed or the status was not 200), the authenticated
\* flag is false afterwards; login() here is also the one update() calls.
C12_FailedLoginNotAuthenticated ==
    [][\A t \in Tasks :
        (/\ task[t].pc = "w_login" /\ task[t]'.pc = "done"
         /\ task[t]'.cause \in {"cancelled", "timeout", "transport", "http_status"})
        => (~_authenticated' /\ task[t]'.raised # "none")]_vars

\* C12's case: the POST of a login() was cancelled or timed out, login()
\* raised and the session is not authenticated.
C12_Witness ==
    \E t \in Tasks :
        /\ task[t].pc = "done" /\ task[t].op.name = "login"
        /\ Last(task[t].trace).kind = "login"
        /\ task[t].cause \in {"cancelled", "timeout"}
        /\ task[t].raised # "none" /\ ~_authenticated

\* The model name of spec section 4 for a port count and a regional flag.
ModelTable(n, eu) ==
    CASE n = 1 -> IF eu THEN "mPower mini (EU)" ELSE "mPower mini"
      [] n = 3 -> IF eu THEN "mPower (EU)" ELSE "mPower"
      [] n = 6 \/ n = 8 -> IF eu THEN "mPower PRO (EU)" ELSE "mPower PRO"
      [] OTHER -> "Unknown"

\* C13: for the port counts 1, 3, 6 and 8 the model accessor returns "mPower
\* mini", "mPower", "mPower PRO" and "mPower PRO", with " (EU)" appended iff
\* the regional flag of the constructor is set; for every other port count
\* it returns "Unknown" without a suffix.
C13_ModelName ==
    \A t \in Tasks :
        (task[t].pc = "done" /\ task[t].op.name = "model" /\ task[t].raised = "none")
        => task[t].value = ModelTable(Ports(_data), _eu_model)

\* C13's case: the model of a device with 8 ports and the regional flag set
\* was read.
C13_Witness ==
    \E t \in Tasks :
        /\ task[t].pc = "done" /\ task[t].op.name = "model"
        /\ Ports(_data) = 8 /\ _eu_model
        /\ task[t].value = "mPower PRO (EU)"

\* C14: each derived accessor (hostname, ip, hwaddr, model, description,
\* ports) raises InvalidData while no fetch has succeeded and raises nothing
\* once one has; none issues a request or changes the session state.
C14_AccessorsNeedUpdate ==
    \A t \in Tasks :
        (task[t].pc = "done" /\ task[t].op.name \in Accessors) =>
            /\ task[t].raised = IF lastFetch < 0 THEN "InvalidData" ELSE "none"
            /\ task[t].trace = <<>>

\* With C14: reading an accessor changes nothing but the reader's result.
AccessorsChangeNothing ==
    [][\A t \in Tasks :
        (\E a \in Accessors : Called(t, a)) =>
            /\ UNCHANGED <<_authenticated, _time, _data, devOut, devAuth, now, lastFetch>>
            /\ task[t]'.pc = "done" /\ task[t]'.trace = <<>>
            /\ lastFetch >= 0 => task[t]'.raised = "none"]_vars

\* C16: __del__ closes the HTTP session only if the device created it and
\* never closes one the caller supplied; it can run any number of times and
\* never raises, also when get_event_loop() or close() fails.
C16_Teardown ==
    [][/\ \A t \in Tasks :
            Called(t, "__del__") =>
                /\ task[t]'.pc = "done" /\ task[t]'.raised = "none"
                /\ task[t]'.trace = <<>>
                /\ ~_session => closed' = closed
       /\ closed' # closed =>
            (_session /\ closed' /\ \E t \in Tasks : Called(t, "__del__"))
       /\ ~_session' => ~closed']_vars

\* C16's case: a __del__ of a device that owns its session ran after an
\* earlier one had closed the session, failed inside and raised nothing.
C16_Witness ==
    \E t \in Tasks :
        /\ task[t].pc = "done" /\ task[t].op.name = "__del__"
        /\ _session /\ closed
        /\ task[t].cause \in {"RuntimeError", "OSError"} /\ task[t].raised = "none"

\* C15: the update() of an entity makes no request of its own: it calls the
\* device's update() once and then reads the record at index port-1 of the
\* device cache, so that after a normal return the entity's view is that
\* record; on an authenticated session with a fresh cache it issues no request.
C15_EntityUpdateRereads ==
    [][\A t \in Tasks :
        /\ (Ends(t, "entity_update") /\ task[t]'.raised = "none") =>
              switch'.data = Index(PortData(_data'), switch'.port - 1)
        /\ (Called(t, "entity_update") /\ _authenticated /\ DictTrue(_data)
               /\ now - _time <= cache_time) =>
              /\ task[t]'.pc = "done" /\ task[t]'.raised = "none"
              /\ task[t]'.trace = <<Ev("update")>>
              /\ switch'.data = Index(PortData(_data), switch.port - 1)
        /\ (task[t]'.op.name = "entity_update" /\ task[t]'.pc # "idle") =>
              /\ task[t]'.trace[1] = Ev("update")
              /\ Count(task[t]'.trace, "update") = 1
              /\ Count(task[t]'.trace, "write") = 0]_vars

\* C15's case: the update() of a switch returned after its device fetched
\* the cache again, and the switch reports what the device cache holds.
C15_Witness ==
    \E t \in Tasks :
        /\ task[t].pc = "done" /\ task[t].op.name = "entity_update"
        /\ task[t].raised = "none"
        /\ Kinds(task[t].trace) = <<"update", "status", "sensors">>
        /\ switch.data = Index(PortData(_data), switch.port - 1)
        /\ switch.data.output = 1

\* The awaits of session.request() and the final paths of requests that failed.
Waits == {"w_request", "w_login", "w_logout", "w_status", "w_sensors", "w_write"}
FailedPaths == {r.path : r \in FailedResponses}

\* C17: nothing is retried. A request that fails inside an operation (no
\* answer, cancelled, timed out, status not 200) ends the operation in that
\* step: it raises to its caller and has issued no further request; a login
\* the device rejects ends it the same way.
C17_NoRetry ==
    [][\A t \in Tasks :
        /\ (task[t].pc \in Waits /\ task[t]' # task[t]
               /\ task[t]'.landed \in FailedPaths) =>
              /\ task[t]'.pc = "done" /\ task[t]'.raised # "none"
              /\ task[t]'.trace = task[t].trace
        /\ (task[t].pc = "w_login" /\ task[t]' # task[t]
               /\ task[t]'.landed = "/login.cgi") =>
              /\ task[t]'.pc = "done" /\ task[t]'.raised # "none"
              /\ task[t]'.trace = task[t].trace]_vars

\* C17's case: the write of a set() with refresh=True failed; set() raised
\* and sent nothing after the write.
C17_Witness ==
    \E t \in Tasks :
        /\ task[t].pc = "done" /\ task[t].op.name = "set" /\ task[t].op.refresh
        /\ task[t].raised # "none" /\ task[t].landed \in FailedPaths
        /\ Kinds(task[t].trace) = <<"write">>

\* C18: a set() or toggle() that returns without raising has made its write
\* on a session the device accepts: the answer to its POST did not land on
\* /login.cgi.
C18_WriteNotLost ==
    \A t \in Tasks :
        (/\ task[t].pc = "done" /\ task[t].op.name \in {"set", "toggle"}
         /\ task[t].raised = "none")
        => task[t].wrote # "/login.cgi"

\* The update() of task t returned normally in this state with a cache
\* fetched just now on a session the device accepts.
Recovered(t) ==
    /\ task[t].pc = "done" /\ task[t].op.name = "update" /\ task[t].raised = "none"
    /\ lastFetch = now /\ _time = now /\ DictTrue(_data)
    /\ _authenticated /\ devAuth

\* C19: when the device redirects to /login.cgi while the flag is still true,
\* every request that lands on /login.cgi sets the flag to false, an update()
\* called with the flag false sends the login POST before anything else, and
\* with correct credentials and a reachable device the flag does not stay
\* true and some later update() returns normally with a refreshed cache.
C19_SessionRecovers ==
    /\ [][\A t \in Tasks :
            /\ (task[t].pc \in Waits /\ task[t]' # task[t]
                   /\ task[t]'.landed = "/login.cgi") => ~_authenticated'
            /\ (Called(t, "update") /\ ~_authenticated) =>
                  (task[t]'.pc = "w_login"
                   /\ task[t]'.trace = <<Ev("update"), Ev("login")>>)]_vars
    /\ (~devAuth /\ _authenticated) ~> ~_authenticated
    /\ (~devAuth /\ _authenticated) ~> (\E t \in Tasks : Recovered(t))

\* C19's case: after the device had dropped the login, an update() logged in
\* again, fetched and returned normally.
C19_Witness ==
    \E t \in Tasks :
        /\ Recovered(t)
        /\ Kinds(task[t].trace) = <<"update", "login", "status", "sensors">>

====
